---- MODULE Spec2Model ----
(***************************************************************************)
(* Port Inspector (src/main.py): enumeration of the host's inet sockets,   *)
(* correlation with the owning process, the refresh-and-filter pipeline    *)
(* and the graceful-then-forceful termination of a process.                *)
(*                                                                         *)
(* Text is modelled as a sequence of one-character strings, so that        *)
(* substring tests, trimming, lower-casing, formatting and parsing are     *)
(* computed and not assumed.                                               *)
(***************************************************************************)
EXTENDS Integers, Sequences, FiniteSets, TLC

VARIABLES
    platform,      \* sys.platform: "posix" or "win"
    procs,         \* OS process table: pid -> "alive" | "dead"
    net,           \* OS socket table, what psutil.net_connections returns
    has_rows,      \* hasattr(self, "_all_rows")
    all_rows,      \* self._all_rows
    table,         \* rows of self.table (cells and the Kill button's bound arguments)
    search_text,   \* self.search_input.text()
    status_label,  \* number shown by self.status_label, <<>> while the label is ""
    timer_on,      \* self._timer started
    stack,         \* handlers suspended in a modal dialog or running try_kill_pid
    kill,          \* the current (or last) try_kill_pid invocation
    enum_rows,     \* rows of the last successful refresh in enumeration order
    lookups        \* pids handed to safe_proc_name by the last successful refresh

vars == <<platform, procs, net, has_rows, all_rows, table, search_text,
          status_label, timer_on, stack, kill, enum_rows, lookups>>

----------------------------------------------------------------------------
(* Bounds of the model *)

\* longest socket table of the pipeline specification
MaxConns == 3
\* longest socket table of the windowed program's specification
MaxHostConns == 2
\* most modal dialogs open at once
MaxDepth == 2
MaxSnaps == 2

----------------------------------------------------------------------------
(* Text *)

\* the characters in use, in code-point order (Python compares str by code point)
CharOrder ==
    <<" ", "-", ".", "0", "1", "2", "3", "4", "5", "6", "7", "8", "9", ":",
      "<", ">",
      "A", "B", "C", "D", "E", "F", "G", "H", "I", "J", "K", "L", "M",
      "N", "O", "P", "Q", "R", "S", "T", "U", "V", "W", "X", "Y", "Z",
      "a", "b", "c", "d", "e", "f", "g", "h", "i", "j", "k", "l", "m",
      "n", "o", "p", "q", "r", "s", "t", "u", "v", "w", "x", "y", "z">>

Chars == { CharOrder[i] : i \in DOMAIN CharOrder }

\* ord(c), up to the offset of the first character
OrdOf == [c \in Chars |-> CHOOSE i \in DOMAIN CharOrder : CharOrder[i] = c]

Ord(c) == OrdOf[c]

DigitChars == <<"0", "1", "2", "3", "4", "5", "6", "7", "8", "9">>

IsDigitChar(c) == Ord(c) >= Ord("0") /\ Ord(c) <= Ord("9")

IsUpperChar(c) == Ord(c) >= Ord("A") /\ Ord(c) <= Ord("Z")

\* str.lower() on one character
LowerOf ==
    [c \in Chars |->
        IF IsUpperChar(c) THEN CharOrder[Ord(c) + (Ord("a") - Ord("A"))] ELSE c]

LowerChar(c) == LowerOf[c]

\* str.lower()
Lower(s) == [i \in 1..Len(s) |-> LowerChar(s[i])]

\* str.strip(): leading and trailing whitespace removed
RECURSIVE LStrip(_)
LStrip(s) == IF s # <<>> /\ Head(s) = " " THEN LStrip(Tail(s)) ELSE s

RECURSIVE RStrip(_)
RStrip(s) ==
    IF s # <<>> /\ s[Len(s)] = " " THEN RStrip(SubSeq(s, 1, Len(s) - 1)) ELSE s

Strip(s) == RStrip(LStrip(s))

\* str.isdigit(): non-empty and digits only
IsDigit(s) == s # <<>> /\ \A i \in 1..Len(s) : IsDigitChar(s[i])

\* q in s
Contains(q, s) ==
    LET t == s
        n == Len(q)
    IN \E i \in 0..(Len(t) - n) : \A j \in 1..n : t[i + j] = q[j]

\* str(n) for an integer n
RECURSIVE StrNat(_)
StrNat(n) ==
    IF n < 10 THEN <<DigitChars[n + 1]>>
    ELSE StrNat(n \div 10) \o <<DigitChars[(n % 10) + 1]>>

Str(n) == IF n < 0 THEN <<"-">> \o StrNat(0 - n) ELSE StrNat(n)

DigitValue(c) == Ord(c) - Ord("0")

\* int(s) for a string of digits
RECURSIVE IntOfDigits(_)
IntOfDigits(s) ==
    IF s = <<>> THEN 0
    ELSE 10 * IntOfDigits(SubSeq(s, 1, Len(s) - 1)) + DigitValue(s[Len(s)])

\* s < t for two str (lexicographic, by code point)
RECURSIVE StrLess(_, _)
StrLess(s, t) ==
    IF t = <<>> THEN FALSE
    ELSE IF s = <<>> THEN TRUE
    ELSE IF Head(s) # Head(t) THEN Ord(Head(s)) < Ord(Head(t))
    ELSE StrLess(Tail(s), Tail(t))

----------------------------------------------------------------------------
(* The host: processes and sockets *)

\* socket.SOCK_STREAM, socket.SOCK_DGRAM, and a third type (SOCK_RAW)
SOCK_STREAM == 1
SOCK_DGRAM == 2
SOCK_RAW == 3

\* c.pid is None / c.laddr is the empty tuple
NoPid == <<>>
NoAddr == <<>>

\* the pids of the host's processes; 7 belongs to another user, 80 is the operator's
Pids == {7, 80}
Denied == {7}

\* psutil.Process(pid).name()
ProcName(pid) == IF pid = 7 THEN <<"D", "b">> ELSE <<"s", "h">>

IP4 == <<"0", ".", "0", ".", "0", ".", "0">>
IP6 == <<":", ":", "1">>
PEER == <<"1", "0", ".", "0", ".", "0", ".", "1">>

LISTEN == <<"L", "I", "S", "T", "E", "N">>
ESTABLISHED == <<"E", "S", "T", "A", "B", "L", "I", "S", "H", "E", "D">>
NONE == <<"N", "O", "N", "E">>

\* one entry of psutil.net_connections(kind='inet')
Conn(type, laddr, raddr, status, pid) ==
    [type |-> type, laddr |-> laddr, raddr |-> raddr, status |-> status, pid |-> pid]

\* the sockets the pipeline specification draws its tables from
PipeConns ==
    { Conn(SOCK_STREAM, <<IP6, 80>>, NoAddr, LISTEN, <<7>>),
      Conn(SOCK_STREAM, <<IP6, 80>>, NoAddr, LISTEN, <<80>>),
      Conn(SOCK_RAW, <<IP4, 80>>, NoAddr, NONE, NoPid),
      Conn(SOCK_STREAM, <<IP4, 9>>, <<PEER, 443>>, ESTABLISHED, <<80>>),
      Conn(SOCK_DGRAM, NoAddr, NoAddr, NONE, <<0>>) }

\* the sockets of the windowed program's specification
HostConns ==
    { Conn(SOCK_STREAM, <<IP6, 80>>, NoAddr, LISTEN, <<7>>),
      Conn(SOCK_STREAM, <<IP4, 9>>, <<PEER, 443>>, ESTABLISHED, <<80>>),
      Conn(SOCK_DGRAM, NoAddr, NoAddr, NONE, <<0>>) }

\* the texts the operator types into the search box
PipeTexts == { <<" ">>, <<"8", "0">>, <<"7">>, <<"8">>, <<" ", "T", "c", "p">> }

HostTexts == { <<>>, <<"8", "0">> }

\* all sequences over S of length at most n
SeqsUpTo(S, n) == UNION { [1..k -> S] : k \in 0..n }

----------------------------------------------------------------------------
(* Snapshot Builder: src/main.py, format_local_addr, safe_proc_name, refresh *)

Unknown == <<"<", "u", "n", "k", "n", "o", "w", "n", ">">>

format_local_addr(addr) ==
    IF addr = NoAddr THEN <<>> ELSE addr[1] \o <<":">> \o Str(addr[2])

\* fault: a failed lookup yields the empty name
safe_proc_name_Empty(pid, found) == IF found THEN ProcName(pid) ELSE <<>>

\* found: whether psutil.Process(pid).name() returned (it raises when the process
\* is gone or may not be read)
safe_proc_name(pid, found) == IF found THEN ProcName(pid) ELSE Unknown

RowPid(c) == IF c.pid # NoPid THEN c.pid[1] ELSE -1

\* fault: the lookup is skipped for the sentinel -1 only
NeedsLookup_NotMinusOne(pid) == pid # -1

\* refresh calls safe_proc_name only if pid > 0
NeedsLookup(pid) == pid > 0

ProtoLabel(type) ==
    IF type = SOCK_STREAM THEN <<"T", "C", "P">>
    ELSE IF type = SOCK_DGRAM THEN <<"U", "D", "P">>
    ELSE Str(type)

\* the tuple appended to rows: (proto, laddr, raddr, status, pid, pname)
Row(c, found) ==
    LET pid == RowPid(c) IN
    << ProtoLabel(c.type),
       IF c.laddr # NoAddr THEN format_local_addr(c.laddr) ELSE <<>>,
       IF c.raddr # NoAddr THEN format_local_addr(c.raddr) ELSE <<>>,
       c.status,
       pid,
       IF NeedsLookup(pid) THEN safe_proc_name(pid, found) ELSE <<>> >>

\* the pids safe_proc_name is called with while the rows are built
LookedUp(conns) ==
    { RowPid(conns[i]) : i \in { j \in 1..Len(conns) : NeedsLookup(RowPid(conns[j])) } }

\* fault: split(":", 1)[1], the text behind the first ":"
AfterLastColon_First(s) ==
    LET first == CHOOSE i \in 1..Len(s) :
                     s[i] = ":" /\ \A j \in 1..(i - 1) : s[j] # ":"
    IN SubSeq(s, first + 1, Len(s))

\* s.rsplit(":", 1)[1] for s containing ":"
AfterLastColon(s) ==
    LET last == CHOOSE i \in 1..Len(s) :
                    s[i] = ":" /\ \A j \in (i + 1)..Len(s) : s[j] # ":"
    IN SubSeq(s, last + 1, Len(s))

\* the port of sort_key: 0 without ":" and when int() raises
SortPort(laddr) ==
    IF Contains(<<":">>, laddr)
    THEN LET t == AfterLastColon(laddr)
         IN IF IsDigit(t) THEN IntOfDigits(t) ELSE 0
    ELSE 0

sort_key(r) == <<SortPort(r[2]), r[1], r[6]>>

\* a < b for two sort keys (tuple comparison)
KeyLess(a, b) ==
    \/ a[1] < b[1]
    \/ a[1] = b[1] /\ StrLess(a[2], b[2])
    \/ a[1] = b[1] /\ a[2] = b[2] /\ StrLess(a[3], b[3])

\* fault: a row that agrees with a placed one on (proto, laddr, raddr) is dropped
InsertRow_Merge(sorted, r) ==
    IF \E i \in 1..Len(sorted) : \A f \in 1..3 : sorted[i][f] = r[f]
    THEN sorted
    ELSE LET k == Cardinality({ i \in 1..Len(sorted) :
                                  ~KeyLess(sort_key(r), sort_key(sorted[i])) })
         IN SubSeq(sorted, 1, k) \o <<r>> \o SubSeq(sorted, k + 1, Len(sorted))

\* r placed behind every row whose key is not greater: list.sort is stable
RECURSIVE InsertRow(_, _)
InsertRow(sorted, r) ==
    IF sorted = <<>> THEN <<r>>
    ELSE IF KeyLess(sort_key(r), sort_key(Head(sorted))) THEN <<r>> \o sorted
    ELSE <<Head(sorted)>> \o InsertRow(Tail(sorted), r)

RECURSIVE SortRows(_)
SortRows(rows) ==
    IF rows = <<>> THEN <<>>
    ELSE InsertRow(SortRows(SubSeq(rows, 1, Len(rows) - 1)), rows[Len(rows)])

----------------------------------------------------------------------------
(* Table and Filter Engine: populate_table, apply_filter *)

\* one table row: the six cells and the arguments bound to its Kill button
TableRow(r) ==
    [cells |-> <<r[1], r[2], r[3], r[4], IF r[5] > 0 THEN Str(r[5]) ELSE <<>>, r[6]>>,
     btn |-> <<r[5], r[6], r[2]>>]

populate_table(rows) == [i \in 1..Len(rows) |-> TableRow(rows[i])]

\* fault: the text is not stripped
Query_NoStrip(text) == Lower(text)

\* q = self.search_input.text().strip().lower()
Query(text) == Lower(Strip(text))

\* fault: a numeric query matches inside str(pid)
Keeps_PidSubstring(q, r) ==
    \/ IsDigit(q) /\ (Contains(q, r[2]) \/ Contains(q, r[3]) \/ Contains(q, Str(r[5])))
    \/ \E f \in {1, 2, 3, 4, 6} : Contains(q, Lower(r[f]))

\* whether the loop of apply_filter appends r
Keeps(q, r) ==
    \/ IsDigit(q) /\ (Contains(q, r[2]) \/ Contains(q, r[3]) \/ q = Str(r[5]))
    \/ Contains(q, Lower(r[6]))
    \/ Contains(q, Lower(r[1]))
    \/ Contains(q, Lower(r[2]))
    \/ Contains(q, Lower(r[3]))
    \/ Contains(q, Lower(r[4]))

\* fault: filtered.insert(0, r)
Filtered_Prepend(q, rows) ==
    LET kept == SelectSeq(rows, LAMBDA r : Keeps(q, r))
    IN [i \in 1..Len(kept) |-> kept[Len(kept) + 1 - i]]

RECURSIVE Filtered(_, _)
Filtered(q, rows) ==
    IF rows = <<>> THEN <<>>
    ELSE (IF Keeps(q, Head(rows)) THEN <<Head(rows)>> ELSE <<>>)
         \o Filtered(q, Tail(rows))

\* fault: an empty query returns before the table is repopulated
apply_filter_EmptyReturns(text, has, rows, before) ==
    LET q == Query(text) IN
    IF ~has \/ q = <<>> THEN before
    ELSE populate_table(Filtered(q, rows))

\* the table apply_filter leaves, given the table before it
apply_filter(text, has, rows, before) ==
    LET q == Query(text) IN
    IF ~has THEN before
    ELSE IF q = <<>> THEN populate_table(rows)
    ELSE populate_table(Filtered(q, rows))

----------------------------------------------------------------------------
(* Handlers in progress *)

APP_REFRESH_INTERVAL_MS == 5000

\* a handler that is suspended in a modal dialog, or is running try_kill_pid
Frame(h, pc, pid, pname, laddr) ==
    [h |-> h, pc |-> pc, pid |-> pid, pname |-> pname, laddr |-> laddr]

InitFrame == Frame("init", "refresh", -1, <<>>, <<>>)
ErrFrame == Frame("err", "critical", -1, <<>>, <<>>)

Top == stack[Len(stack)]
Pop(st) == SubSeq(st, 1, Len(st) - 1)

\* a QMessageBox is open on top: its event loop dispatches timer events
IsDialog(f) ==
    \/ f.h = "err"
    \/ f.h = "kill" /\ f.pc \in {"no_pid", "confirm", "killed", "failed"}

\* the main window takes the operator's input
Idle == stack = <<>>

\* an event loop is running (app.exec or a dialog's)
EventLoop == IF stack = <<>> THEN TRUE ELSE IsDialog(Top)

\* no try_kill_pid invocation; `refreshes` counts the self.refresh() calls of
\* on_kill_clicked, `snaps` the snapshots stored since try_kill_pid returned
\* success
NoKill ==
    [pid |-> -1, pc |-> "idle", existed |-> FALSE, handle |-> FALSE,
     sent |-> <<>>, exc |-> <<>>, exited |-> FALSE, rc |-> "none",
     result |-> <<>>, refreshes |-> 0, snaps |-> 0]

\* one more snapshot was stored
Snapped(k) ==
    IF k.pc = "done" /\ k.result[1] /\ k.snaps < MaxSnaps
    THEN [k EXCEPT !.snaps = @ + 1]
    ELSE k

----------------------------------------------------------------------------
(* Refresh Loop: refresh *)

\* the outcomes of the name lookups of one refresh, one per socket
Founds ==
    LET asked == { i \in 1..Len(net) : NeedsLookup(RowPid(net[i])) } IN
    { [i \in 1..Len(net) |-> i \notin failed] : failed \in SUBSET asked }

\* refresh when psutil.net_connections returns
RefreshOk ==
    \E found \in Founds :
        LET rows == [i \in 1..Len(net) |-> Row(net[i], found[i])]
            sorted == SortRows(rows)
        IN /\ has_rows' = TRUE
           /\ all_rows' = sorted
           /\ table' = apply_filter(search_text, TRUE, sorted, populate_table(sorted))
           /\ status_label' = <<Len(sorted)>>
           /\ enum_rows' = rows
           /\ lookups' = LookedUp(net)

\* fault: the rows are reset before the enumeration
RefreshFail_Clears ==
    /\ has_rows' = TRUE
    /\ all_rows' = <<>>
    /\ table' = <<>>
    /\ UNCHANGED <<status_label, enum_rows, lookups>>

\* refresh when psutil.net_connections raises: the dialog is the caller's push
RefreshFail ==
    UNCHANGED <<has_rows, all_rows, table, status_label, enum_rows, lookups>>

\* __init__: the initial refresh, then the timer is started
CtorRefreshOk ==
    /\ stack = <<InitFrame>>
    /\ RefreshOk
    /\ timer_on' = (APP_REFRESH_INTERVAL_MS > 0)
    /\ stack' = <<>>
    /\ UNCHANGED <<platform, procs, net, search_text, kill>>

CtorRefreshFail ==
    /\ stack = <<InitFrame>>
    /\ RefreshFail
    /\ stack' = <<InitFrame, ErrFrame>>
    /\ UNCHANGED <<platform, procs, net, search_text, kill, timer_on>>

\* the Refresh button
ClickRefreshOk ==
    /\ Idle
    /\ RefreshOk
    /\ UNCHANGED <<platform, procs, net, search_text, kill, timer_on, stack>>

ClickRefreshFail ==
    /\ Idle
    /\ RefreshFail
    /\ stack' = <<ErrFrame>>
    /\ UNCHANGED <<platform, procs, net, search_text, kill, timer_on>>

\* self._timer.timeout
TimerTickOk ==
    /\ timer_on
    /\ EventLoop
    /\ RefreshOk
    /\ kill' = Snapped(kill)
    /\ UNCHANGED <<platform, procs, net, search_text, timer_on, stack>>

TimerTickFail ==
    /\ timer_on
    /\ EventLoop
    /\ Len(stack) < MaxDepth
    /\ RefreshFail
    /\ stack' = Append(stack, ErrFrame)
    /\ UNCHANGED <<platform, procs, net, search_text, kill, timer_on>>

\* the operator closes the "Failed to enumerate connections" box: refresh returns,
\* and so does a caller that has nothing left to do
CloseError ==
    /\ stack # <<>>
    /\ Top.h = "err"
    /\ LET below == Pop(stack) IN
       IF below # <<>> /\ below[Len(below)].h = "init"
       THEN stack' = <<>> /\ timer_on' = (APP_REFRESH_INTERVAL_MS > 0) /\ UNCHANGED kill
       ELSE IF below # <<>> /\ below[Len(below)].h = "kill"
                            /\ below[Len(below)].pc = "refresh"
       THEN stack' = Pop(below) /\ kill' = NoKill /\ UNCHANGED timer_on
       ELSE stack' = below /\ UNCHANGED <<timer_on, kill>>
    /\ UNCHANGED <<platform, procs, net, search_text, has_rows, all_rows, table,
                   status_label, enum_rows, lookups>>

----------------------------------------------------------------------------
(* Search box *)

\* search_input.textChanged -> apply_filter
EditQuery(t) ==
    /\ Idle
    /\ t # search_text
    /\ search_text' = t
    /\ table' = apply_filter(t, has_rows, all_rows, table)
    /\ UNCHANGED <<platform, procs, net, has_rows, all_rows, status_label,
                   timer_on, stack, kill, enum_rows, lookups>>

\* the Clear button: setText("")
ClickClear ==
    /\ Idle
    /\ search_text # <<>>
    /\ search_text' = <<>>
    /\ table' = apply_filter(<<>>, has_rows, all_rows, table)
    /\ UNCHANGED <<platform, procs, net, has_rows, all_rows, status_label,
                   timer_on, stack, kill, enum_rows, lookups>>

----------------------------------------------------------------------------
(* Termination Controller: on_kill_clicked, try_kill_pid *)

\* fault: the guard on the pid is missing
NoVisiblePid_Never(pid) == FALSE

\* `not pid or pid <= 0`
NoVisiblePid(pid) == pid = 0 \/ pid <= 0

\* a Kill button: on_kill_clicked with the arguments bound by populate_table
ClickKill ==
    /\ Idle
    /\ \E i \in DOMAIN table :
          LET b == table[i].btn IN
          stack' = <<Frame("kill",
                           IF NoVisiblePid(b[1]) THEN "no_pid" ELSE "confirm",
                           b[1], b[2], b[3])>>
    /\ UNCHANGED <<platform, procs, net, has_rows, all_rows, table, search_text,
                   status_label, timer_on, kill, enum_rows, lookups>>

\* the "No PID" box is closed
CloseNoPid ==
    /\ stack # <<>>
    /\ Top.h = "kill" /\ Top.pc = "no_pid"
    /\ stack' = Pop(stack)
    /\ UNCHANGED <<platform, procs, net, has_rows, all_rows, table, search_text,
                   status_label, timer_on, kill, enum_rows, lookups>>

\* "Confirm Kill" answered No (or closed)
AnswerNo ==
    /\ stack # <<>>
    /\ Top.h = "kill" /\ Top.pc = "confirm"
    /\ stack' = Pop(stack)
    /\ UNCHANGED <<platform, procs, net, has_rows, all_rows, table, search_text,
                   status_label, timer_on, kill, enum_rows, lookups>>

\* try_kill_pid(pid) is entered
Entered(pid) == [NoKill EXCEPT !.pid = pid, !.pc = "handle"]

\* "Confirm Kill" answered Yes: try_kill_pid(pid)
AnswerYes ==
    /\ stack # <<>>
    /\ Top.h = "kill" /\ Top.pc = "confirm"
    /\ stack' = [stack EXCEPT ![Len(stack)].pc = "try"]
    /\ kill' = Entered(Top.pid)
    /\ UNCHANGED <<platform, procs, net, has_rows, all_rows, table, search_text,
                   status_label, timer_on, enum_rows, lookups>>

Running(pc) == stack # <<>> /\ Top.pc = "try" /\ kill.pc = pc

Alive(pid) == pid \in Pids /\ procs[pid] = "alive"

\* fault: no `except (psutil.NoSuchProcess, ProcessLookupError)` clause
Catch_NoNotFound(step, exc) ==
    IF step = "wait1" /\ exc = "TimeoutExpired" THEN "escalate" ELSE "fallback"

\* fault: psutil.AccessDenied is handled like the first timeout
Catch_DeniedEscalates(step, exc) ==
    IF step = "wait1" /\ exc = "TimeoutExpired" THEN "escalate"
    ELSE IF exc = "AccessDenied" THEN "escalate"
    ELSE IF exc \in {"NoSuchProcess", "ProcessLookupError"} THEN "not_found"
    ELSE "fallback"

\* fault: no `except Exception` clause
Catch_NoCatchAll(step, exc) ==
    IF step = "wait1" /\ exc = "TimeoutExpired" THEN "escalate"
    ELSE IF exc \in {"NoSuchProcess", "ProcessLookupError"} THEN "not_found"
    ELSE "escape"

\* the except clause an exception raised at a step of try_kill_pid reaches
Catch(step, exc) ==
    IF step = "wait1" /\ exc = "TimeoutExpired" THEN "escalate"
    ELSE IF exc \in {"NoSuchProcess", "ProcessLookupError"} THEN "not_found"
    ELSE "fallback"

\* the invocation after `exc` was raised at `step`
Raised(k, step, exc) ==
    LET k1 == [k EXCEPT !.exc = Append(@, <<step, exc>>)]
        to == Catch(step, exc)
    IN IF to = "escalate" THEN [k1 EXCEPT !.pc = "kill"]
       ELSE IF to = "not_found"
       THEN [k1 EXCEPT !.pc = "done", !.result = <<FALSE, <<"process not found">>>>]
       ELSE IF to = "fallback" THEN [k1 EXCEPT !.pc = "fallback"]
       ELSE [k1 EXCEPT !.pc = "escaped"]

\* the return value after a wait that returned
Waited(k, reason) ==
    [k EXCEPT !.pc = "done", !.exited = TRUE, !.result = <<TRUE, <<reason>>>>]

KillUnchanged ==
    UNCHANGED <<platform, procs, net, has_rows, all_rows, table, search_text,
                status_label, timer_on, stack, enum_rows, lookups>>

\* proc = psutil.Process(pid)
KillHandle ==
    /\ Running("handle")
    /\ LET k == [kill EXCEPT !.existed = Alive(kill.pid)] IN
       \/ /\ kill.pid < 0
          /\ kill' = Raised(k, "handle", "ValueError")
       \/ /\ kill.pid >= 0 /\ ~Alive(kill.pid)
          /\ kill' = Raised(k, "handle", "NoSuchProcess")
       \/ /\ kill.pid = 0
          /\ kill' = [k EXCEPT !.handle = TRUE, !.pc = "terminate"]
       \/ /\ Alive(kill.pid)
          /\ kill' = [k EXCEPT !.handle = TRUE, !.pc = "terminate"]
    /\ KillUnchanged

\* proc.terminate()
KillTerminate ==
    /\ Running("terminate")
    /\ \/ /\ kill.pid = 0
          /\ kill' = Raised(kill, "terminate", "ValueError")
       \/ /\ kill.pid # 0 /\ ~Alive(kill.pid)
          /\ kill' = Raised(kill, "terminate", "NoSuchProcess")
       \/ /\ Alive(kill.pid) /\ kill.pid \in Denied
          /\ kill' = Raised(kill, "terminate", "AccessDenied")
       \/ /\ Alive(kill.pid) /\ kill.pid \notin Denied
          /\ kill' = [kill EXCEPT !.sent = Append(@, "terminate"), !.pc = "wait1"]
    /\ KillUnchanged

\* proc.wait(timeout=3) after terminate
KillWait1 ==
    /\ Running("wait1")
    /\ IF Alive(kill.pid)
       THEN kill' = Raised(kill, "wait1", "TimeoutExpired")
       ELSE kill' = Waited(kill, "terminated")
    /\ KillUnchanged

\* proc.kill()
KillKill ==
    /\ Running("kill")
    /\ IF Alive(kill.pid)
       THEN kill' = [kill EXCEPT !.sent = Append(@, "kill"), !.pc = "wait2"]
       ELSE kill' = Raised(kill, "kill", "NoSuchProcess")
    /\ KillUnchanged

\* proc.wait(timeout=3) after kill
KillWait2 ==
    /\ Running("wait2")
    /\ IF Alive(kill.pid)
       THEN kill' = Raised(kill, "wait2", "TimeoutExpired")
       ELSE kill' = Waited(kill, "killed")
    /\ KillUnchanged

\* the sockets left when process pid is gone
WithoutOwner(conns, pid) == SelectSeq(conns, LAMBDA c : c.pid # <<pid>>)

LastExc(k) == k.exc[Len(k.exc)][2]

\* except Exception, Windows: taskkill /PID pid /F
KillFallbackWin ==
    /\ Running("fallback")
    /\ platform = "win"
    /\ \/ /\ Alive(kill.pid) /\ kill.pid \notin Denied
          /\ kill' = [kill EXCEPT !.sent = Append(@, "taskkill"), !.rc = "zero",
                                  !.pc = "done", !.result = <<TRUE, <<"taskkill">>>>]
          /\ procs' = [procs EXCEPT ![kill.pid] = "dead"]
          /\ net' = WithoutOwner(net, kill.pid)
       \/ /\ kill' = [kill EXCEPT !.sent = Append(@, "taskkill"), !.rc = "nonzero",
                                  !.pc = "done",
                                  !.result = <<FALSE, <<LastExc(kill),
                                                        "; taskkill failed: ",
                                                        "CalledProcessError">>>>]
          /\ UNCHANGED <<procs, net>>
    /\ UNCHANGED <<platform, has_rows, all_rows, table, search_text,
                   status_label, timer_on, stack, enum_rows, lookups>>

\* except Exception, elsewhere: os.kill(pid, signal.SIGTERM)
KillFallbackPosix ==
    /\ Running("fallback")
    /\ platform # "win"
    /\ \/ /\ kill.pid > 0 /\ ~Alive(kill.pid)
          /\ kill' = [kill EXCEPT !.pc = "done",
                                  !.exc = Append(@, <<"os.kill", "ProcessLookupError">>),
                                  !.result = <<FALSE, <<"No such process">>>>]
       \/ /\ Alive(kill.pid) /\ kill.pid \in Denied
          /\ kill' = [kill EXCEPT !.pc = "done",
                                  !.exc = Append(@, <<"os.kill", "PermissionError">>),
                                  !.result = <<FALSE, <<"permission denied: ",
                                                        "Operation not permitted">>>>]
       \/ /\ kill.pid <= 0 \/ (Alive(kill.pid) /\ kill.pid \notin Denied)
          /\ kill' = [kill EXCEPT !.sent = Append(@, "os.kill"), !.pc = "done",
                                  !.result = <<TRUE, <<"SIGTERM sent">>>>]
    /\ KillUnchanged

\* fault: the refresh is called after the if statement, on both branches
KillReturn_RefreshAlways ==
    /\ Running("done")
    /\ Top.h = "kill"
    /\ stack' = [stack EXCEPT ![Len(stack)].pc = "killed"]
    /\ UNCHANGED <<platform, procs, net, has_rows, all_rows, table, search_text,
                   status_label, timer_on, kill, enum_rows, lookups>>

\* try_kill_pid returned to on_kill_clicked: the "Killed" or the "Failed" box
KillReturn ==
    /\ Running("done")
    /\ Top.h = "kill"
    /\ stack' = [stack EXCEPT ![Len(stack)].pc =
                    IF kill.result[1] THEN "killed" ELSE "failed"]
    /\ UNCHANGED <<platform, procs, net, has_rows, all_rows, table, search_text,
                   status_label, timer_on, kill, enum_rows, lookups>>

\* the "Killed" box is closed: self.refresh(), which stores a snapshot
CloseKilledOk ==
    /\ stack # <<>>
    /\ Top.h = "kill" /\ Top.pc = "killed"
    /\ RefreshOk
    /\ stack' = [stack EXCEPT ![Len(stack)].pc = "return"]
    /\ kill' = [Snapped(kill) EXCEPT !.refreshes = @ + 1]
    /\ UNCHANGED <<platform, procs, net, search_text, timer_on>>

\* the "Killed" box is closed: self.refresh(), whose enumeration fails
CloseKilledFail ==
    /\ stack # <<>>
    /\ Top.h = "kill" /\ Top.pc = "killed"
    /\ RefreshFail
    /\ stack' = Append([stack EXCEPT ![Len(stack)].pc = "refresh"], ErrFrame)
    /\ kill' = [kill EXCEPT !.refreshes = @ + 1]
    /\ UNCHANGED <<platform, procs, net, search_text, timer_on>>

\* on_kill_clicked returns behind its refresh
KillClickedReturn ==
    /\ stack # <<>>
    /\ Top.h = "kill" /\ Top.pc = "return"
    /\ stack' = Pop(stack)
    /\ kill' = NoKill
    /\ UNCHANGED <<platform, procs, net, has_rows, all_rows, table, search_text,
                   status_label, timer_on, enum_rows, lookups>>

\* the "Failed" box is closed
CloseFailed ==
    /\ stack # <<>>
    /\ Top.h = "kill" /\ Top.pc = "failed"
    /\ stack' = Pop(stack)
    /\ kill' = NoKill
    /\ UNCHANGED <<platform, procs, net, has_rows, all_rows, table, search_text,
                   status_label, timer_on, enum_rows, lookups>>

----------------------------------------------------------------------------
(* The host's own steps *)

\* a process exits, and the OS releases its sockets
ProcExit ==
    \E pid \in Pids :
        /\ procs[pid] = "alive"
        /\ procs' = [procs EXCEPT ![pid] = "dead"]
        /\ net' = WithoutOwner(net, pid)
        /\ UNCHANGED <<platform, has_rows, all_rows, table, search_text,
                       status_label, timer_on, stack, kill, enum_rows, lookups>>

\* a socket is closed
SocketClose ==
    \E i \in 1..Len(net) :
        /\ net' = SubSeq(net, 1, i - 1) \o SubSeq(net, i + 1, Len(net))
        /\ UNCHANGED <<platform, procs, has_rows, all_rows, table, search_text,
                       status_label, timer_on, stack, kill, enum_rows, lookups>>

----------------------------------------------------------------------------
(* The windowed program *)

\* every owner of a socket is a running process
Owned(conns) ==
    \A i \in 1..Len(conns) :
        conns[i].pid # NoPid /\ conns[i].pid[1] > 0 => Alive(conns[i].pid[1])

\* the window after setup_ui, before the first refresh
Constructed ==
    /\ has_rows = FALSE
    /\ all_rows = <<>>
    /\ table = <<>>
    /\ search_text = <<>>
    /\ status_label = <<>>
    /\ timer_on = FALSE
    /\ stack = <<InitFrame>>
    /\ kill = NoKill
    /\ enum_rows = <<>>
    /\ lookups = {}

Init ==
    /\ platform \in {"posix", "win"}
    /\ procs \in [Pids -> {"alive", "dead"}]
    /\ net \in SeqsUpTo(HostConns, MaxHostConns)
    /\ Owned(net)
    /\ Constructed

Next ==
    \/ CtorRefreshOk \/ CtorRefreshFail
    \/ ClickRefreshOk \/ ClickRefreshFail
    \/ TimerTickOk \/ TimerTickFail
    \/ CloseError
    \/ \E t \in HostTexts : EditQuery(t)
    \/ ClickClear
    \/ ClickKill \/ CloseNoPid \/ AnswerNo \/ AnswerYes
    \/ KillHandle \/ KillTerminate \/ KillWait1 \/ KillKill \/ KillWait2
    \/ KillFallbackWin \/ KillFallbackPosix
    \/ KillReturn \/ CloseKilledOk \/ CloseKilledFail \/ CloseFailed
    \/ KillClickedReturn
    \/ ProcExit \/ SocketClose

Spec == Init /\ [][Next]_vars

----------------------------------------------------------------------------
(* The pipeline alone: refreshes and searches over a fixed socket table *)

InitPipe ==
    /\ platform = "posix"
    /\ procs = [pid \in Pids |-> "alive"]
    /\ net \in SeqsUpTo(PipeConns, MaxConns)
    /\ Constructed

NextPipe ==
    \/ CtorRefreshOk
    \/ ClickRefreshOk
    \/ \E t \in PipeTexts : EditQuery(t)
    \/ ClickClear

SpecPipe == InitPipe /\ [][NextPipe]_vars

----------------------------------------------------------------------------
(* The termination controller called directly: terminate(pid) for any integer *)

ApiPids == {-1, 0} \cup Pids

\* a caller invokes try_kill_pid(pid)
ApiTerminate ==
    /\ stack = <<>>
    /\ \E pid \in ApiPids :
          /\ stack' = <<Frame("api", "try", pid, <<>>, <<>>)>>
          /\ kill' = Entered(pid)
    /\ UNCHANGED <<platform, procs, net, has_rows, all_rows, table, search_text,
                   status_label, timer_on, enum_rows, lookups>>

\* the caller has the result
ApiReturn ==
    /\ Running("done")
    /\ Top.h = "api"
    /\ stack' = <<>>
    /\ kill' = NoKill
    /\ UNCHANGED <<platform, procs, net, has_rows, all_rows, table, search_text,
                   status_label, timer_on, enum_rows, lookups>>

\* no window: the caller holds the controller alone
InitApi ==
    /\ platform \in {"posix", "win"}
    /\ procs \in [Pids -> {"alive", "dead"}]
    /\ net \in SeqsUpTo(HostConns, MaxHostConns)
    /\ Owned(net)
    /\ has_rows = FALSE
    /\ all_rows = <<>>
    /\ table = <<>>
    /\ search_text = <<>>
    /\ status_label = <<>>
    /\ timer_on = FALSE
    /\ stack = <<>>
    /\ kill = NoKill
    /\ enum_rows = <<>>
    /\ lookups = {}

NextApi ==
    \/ ApiTerminate
    \/ KillHandle \/ KillTerminate \/ KillWait1 \/ KillKill \/ KillWait2
    \/ KillFallbackWin \/ KillFallbackPosix
    \/ ApiReturn
    \/ ProcExit

SpecApi == InitApi /\ [][NextApi]_vars

----------------------------------------------------------------------------
(* Properties *)

\* the record a table row shows: its cells, with the pid its button is bound to
RecordOf(row) ==
    <<row.cells[1], row.cells[2], row.cells[3], row.cells[4], row.btn[1], row.cells[6]>>

VisibleRecords == [j \in 1..Len(table) |-> RecordOf(table[j])]

Done == kill.pc = "done"
Succeeded == Done /\ kill.result[1]
Reason == kill.result[2]

\* C1: whenever terminate reports success, the process was seen to exit within
\* one of the two waits (reason "terminated" or "killed"), or the platform's
\* forced-termination command exited with status zero.
C1_SuccessMeansExited ==
    Succeeded =>
        \/ kill.exited /\ Reason \in {<<"terminated">>, <<"killed">>}
        \/ kill.rc = "zero"

\* C2: terminate(pid) for pid > 0 naming no existing process returns
\* (false, "process not found"), having sent no request and run no fallback.
C2_NotFound ==
    Done /\ kill.pid > 0 /\ ~kill.existed =>
        /\ kill.result = <<FALSE, <<"process not found">>>>
        /\ kill.sent = <<>>
        /\ kill.rc = "none"

C2_Witness == Done /\ kill.pid > 0 /\ ~kill.existed /\ stack[1].h = "kill"

PermissionFailed ==
    \E i \in DOMAIN kill.exc :
        /\ kill.exc[i][1] \in {"handle", "terminate", "kill"}
        /\ kill.exc[i][2] = "AccessDenied"

\* C3: when a step of terminate fails for lack of permission, the result is a
\* failure whose reason starts with "permission denied" and carries the detail,
\* or a success through the platform fallback that did signal the process.
C3_PermissionDenied ==
    Done /\ PermissionFailed =>
        \/ ~kill.result[1] /\ Len(Reason) = 2 /\ Reason[1] = "permission denied: "
        \/ /\ kill.result[1]
           /\ kill.sent # <<>>
           /\ kill.sent[Len(kill.sent)] \in {"os.kill", "taskkill"}

\* C4: terminate(pid) with pid <= 0 returns (false, "no PID") at once: no handle
\* is resolved, no request is sent and no fallback runs.
C4_NoPid ==
    Done /\ kill.pid <= 0 =>
        /\ kill.result = <<FALSE, <<"no PID">>>>
        /\ kill.sent = <<>>
        /\ kill.exc = <<>>
        /\ ~kill.handle

Blank(text) == \A i \in 1..Len(text) : text[i] = " "

\* C5: with a query that is empty after trimming, the visible rows are the
\* stored snapshot, same records in the same order.
C5_EmptyQueryShowsAll ==
    has_rows /\ Blank(search_text) => VisibleRecords = all_rows

C5_Witness ==
    /\ has_rows /\ search_text = <<" ">>
    /\ Len(all_rows) >= 2 /\ all_rows[1] # all_rows[2]
    /\ VisibleRecords = all_rows

\* a record matches q as the filter's contract words it
Matches(q, r) ==
    \/ \E f \in {1, 2, 3, 4, 6} : Contains(q, Lower(r[f]))
    \/ IsDigit(q) /\ q = Str(r[5])

IsVisible(r) == \E j \in 1..Len(table) : RecordOf(table[j]) = r

\* C6: under a non-empty query q a record of the snapshot is visible if and only
\* if q is a substring of its lower-cased protocol, local address, remote
\* address, status or process name, or q is all digits and equals its pid.
C6_FilterIff ==
    has_rows /\ Query(search_text) # <<>> =>
        \A i \in 1..Len(all_rows) :
            IsVisible(all_rows[i]) <=> Matches(Query(search_text), all_rows[i])

\* a numeric query shows a record through its pid alone and hides the record
\* whose pid merely contains it
C6_Witness ==
    /\ has_rows
    /\ \/ /\ Query(search_text) = <<"7">>
          /\ \E i \in 1..Len(all_rows) :
                /\ all_rows[i][5] = 7 /\ IsVisible(all_rows[i])
                /\ \A f \in {1, 2, 3, 4, 6} : ~Contains(<<"7">>, Lower(all_rows[i][f]))
       \/ /\ Query(search_text) = <<"8">>
          /\ \E i \in 1..Len(all_rows) :
                all_rows[i][5] = 80 /\ ~IsVisible(all_rows[i])
          /\ table # <<>>

\* s is t with some elements left out
RECURSIVE IsSubsequence(_, _)
IsSubsequence(s, t) ==
    IF s = <<>> THEN TRUE
    ELSE IF t = <<>> THEN FALSE
    ELSE IF Head(s) = Head(t) THEN IsSubsequence(Tail(s), Tail(t))
    ELSE IsSubsequence(s, Tail(t))

\* C7: the visible rows are a subsequence of the snapshot: records of the
\* snapshot, none more often than there, in the snapshot's order.
C7_FilterKeepsOrder == has_rows => IsSubsequence(VisibleRecords, all_rows)

C7_Witness ==
    /\ has_rows /\ Query(search_text) # <<>>
    /\ Len(table) = 2 /\ Len(all_rows) = 3
    /\ table[1] # table[2]
    /\ RecordOf(table[1]) = all_rows[1] /\ RecordOf(table[2]) = all_rows[3]

\* the local port as the sort contract words it: the digits behind the last ":"
\* of the local address, 0 when there is no address or no number there
PortOf(laddr) ==
    IF \E k \in 1..Len(laddr) :
           /\ laddr[k] = ":"
           /\ IsDigit(SubSeq(laddr, k + 1, Len(laddr)))
    THEN LET k == CHOOSE k \in 1..Len(laddr) :
                      /\ laddr[k] = ":"
                      /\ IsDigit(SubSeq(laddr, k + 1, Len(laddr)))
         IN IntOfDigits(SubSeq(laddr, k + 1, Len(laddr)))
    ELSE 0

\* r comes no later than s under (port, protocol, process name)
InOrder(r, s) ==
    \/ PortOf(r[2]) < PortOf(s[2])
    \/ /\ PortOf(r[2]) = PortOf(s[2])
       /\ \/ StrLess(r[1], s[1])
          \/ r[1] = s[1] /\ (r[6] = s[6] \/ StrLess(r[6], s[6]))

SameKey(r, s) == PortOf(r[2]) = PortOf(s[2]) /\ r[1] = s[1] /\ r[6] = s[6]

WithKeyOf(rows, r) == SelectSeq(rows, LAMBDA s : SameKey(r, s))

\* C8: the stored snapshot is sorted ascending by (local port, protocol label,
\* process name), and records with equal keys keep their enumeration order.
C8_SnapshotSorted ==
    has_rows =>
        /\ \A i \in 1..(Len(all_rows) - 1) : InOrder(all_rows[i], all_rows[i + 1])
        /\ \A i \in 1..Len(enum_rows) :
              WithKeyOf(all_rows, enum_rows[i]) = WithKeyOf(enum_rows, enum_rows[i])

\* a snapshot the sort reordered, holding two distinct records with one key
C8_Witness ==
    /\ has_rows /\ Len(all_rows) = 3 /\ all_rows # enum_rows
    /\ \E i \in 1..2 :
          SameKey(all_rows[i], all_rows[i + 1]) /\ all_rows[i] # all_rows[i + 1]
    /\ \E i \in 1..3 : PortOf(all_rows[i][2]) = 9

\* C9: every record of the snapshot without an owner pid (pid <= 0) has the
\* empty process name, and no name was looked up for such a pid.
C9_NoOwnerNoName ==
    has_rows =>
        /\ \A i \in 1..Len(all_rows) : all_rows[i][5] <= 0 => all_rows[i][6] = <<>>
        /\ \A pid \in lookups : pid > 0

C9_Witness ==
    /\ has_rows
    /\ \E i, j, k \in 1..Len(all_rows) :
          /\ all_rows[i][5] = -1 /\ all_rows[j][5] = 0
          /\ all_rows[k][5] > 0 /\ all_rows[k][5] \in lookups

ErrorShown == stack # <<>> /\ Top.h = "err"

\* a refresh whose enumeration failed opens its error box
ErrorOpens == Len(stack') = Len(stack) + 1 /\ stack'[Len(stack')].h = "err"

\* that refresh returns when its box is closed
ErrorCloses == ErrorShown /\ Len(stack') < Len(stack)

\* C10: a refresh whose enumeration fails reports the failure and leaves the
\* stored snapshot and the visible rows as they were, from its start to its return.
C10_FailedRefreshKeepsSnapshot ==
    [][ErrorOpens \/ ErrorCloses => UNCHANGED <<has_rows, all_rows, table>>]_vars

C10_Witness ==
    /\ ErrorShown /\ has_rows /\ Len(all_rows) = 2 /\ Len(table) = 1
    /\ Len(net) < 2

Returning == stack # <<>> /\ Top.h = "kill" /\ Top.pc = "return"

\* on_kill_clicked returns: its frame leaves the stack of handlers
ClickedReturns ==
    /\ kill.pc = "done"
    /\ \E i \in 1..Len(stack) : stack[i].h = "kill"
    /\ \A i \in 1..Len(stack') : stack'[i].h # "kill"

\* C11: when on_kill_clicked returns after terminate reported success it has
\* called refresh exactly once, and after terminate reported failure it has
\* called refresh not at all.
C11_SuccessRefreshesOnce ==
    [][ClickedReturns => kill.refreshes = (IF kill.result[1] THEN 1 ELSE 0)]_vars

\* the handler about to return behind the one refresh of a successful attempt
C11_Witness ==
    /\ Returning /\ kill.pc = "done" /\ kill.result[1]
    /\ kill.refreshes = 1 /\ kill.sent # <<>>

\* the stored snapshot has a record owned by pid
Lists(pid) == \E i \in 1..Len(all_rows) : all_rows[i][5] = pid

\* C12: once terminate(pid) has returned success and two or more snapshots have
\* been stored since, the stored snapshot has no record owned by pid (the host
\* releases the sockets of a process the moment it exits).
C12_GoneAfterGrace ==
    Succeeded /\ kill.snaps >= 2 => ~Lists(kill.pid)

\* the records of rows the filter's contract selects under the text of the box
FilterOf(rows, text) ==
    SelectSeq(rows, LAMBDA r : Blank(text) \/ Matches(Query(text), r))

\* C13: whenever no handler is running the visible rows are the filter of the
\* stored snapshot under the current query, and a step that changes the query
\* leaves the stored snapshot as it was and enumerates nothing.
C13_VisibleIsFilter ==
    [][/\ stack' = <<>> => VisibleRecords' = FilterOf(all_rows', search_text')
       /\ search_text' # search_text =>
              /\ all_rows' = all_rows
              /\ enum_rows' = enum_rows /\ lookups' = lookups]_vars

\* a quiescent window whose query hides a part of the snapshot
C13_Witness ==
    /\ Idle /\ has_rows /\ Query(search_text) # <<>>
    /\ table # <<>> /\ Len(table) < Len(all_rows)
    /\ VisibleRecords = FilterOf(all_rows, search_text)

\* the refresh calls that have started and not returned: each one is stopped
\* in its "Failed to enumerate connections" box
RefreshesInProgress == { i \in 1..Len(stack) : stack[i].h = "err" }

\* C14: at most one refresh has started and not yet returned.
C14_OneRefreshAtATime == Cardinality(RefreshesInProgress) <= 1

\* record r is socket c as enumerated, whatever its name lookup gave
RecordsSocket(r, c) ==
    /\ r[1] = ProtoLabel(c.type)
    /\ r[2] = format_local_addr(c.laddr) /\ r[3] = format_local_addr(c.raddr)
    /\ r[4] = c.status
    /\ r[5] = RowPid(c)
    /\ r[5] > 0 => r[6] \in {ProcName(r[5]), Unknown}

\* C15: every refresh whose enumeration returns stores a snapshot, whatever the
\* name lookups do: it has as many records as sockets were enumerated, every
\* enumerated socket has its record, and a record with owner pid > 0 carries
\* the process name or, its lookup having failed, "<unknown>".
C15_LookupFailureContained ==
    /\ stack = <<>> => has_rows
    /\ has_rows =>
          /\ Len(all_rows) = Len(net)
          /\ \A i \in 1..Len(net) :
                \E j \in 1..Len(all_rows) : RecordsSocket(all_rows[j], net[i])

\* a snapshot of three sockets of one process: a lookup failed, another did not
C15_Witness ==
    /\ has_rows /\ Len(all_rows) = 3
    /\ \E i, j \in 1..3 :
          /\ all_rows[i][5] = 80 /\ all_rows[i][6] = Unknown
          /\ all_rows[j][5] = 80 /\ all_rows[j][6] = ProcName(80)
    /\ \A i \in 1..3 : all_rows[i][5] = 80

\* how often r occurs in rows
Occurrences(rows, r) == Cardinality({ i \in 1..Len(rows) : rows[i] = r })

\* a and b hold the same records, each as often as the other
IsPermutation(a, b) ==
    /\ Len(a) = Len(b)
    /\ \A i \in 1..Len(a) : Occurrences(a, a[i]) = Occurrences(b, a[i])

\* r and s agree on protocol, local address and remote address
SameEndpoints(r, s) == r[1] = s[1] /\ r[2] = s[2] /\ r[3] = s[3]

\* C16: the stored snapshot has one record per enumerated socket: it is a
\* permutation of the normalized entries, so that entries agreeing on
\* (protocol, local address, remote address) are all there.
C16_OneRecordPerSocket ==
    has_rows =>
        /\ Len(all_rows) = Len(net)
        /\ IsPermutation(all_rows, enum_rows)
        /\ \A i \in 1..Len(enum_rows) :
              Len(SelectSeq(all_rows, LAMBDA r : SameEndpoints(r, enum_rows[i])))
                  = Len(SelectSeq(enum_rows, LAMBDA r : SameEndpoints(r, enum_rows[i])))

\* three records on one endpoint: two of one process, one of another
C16_Witness ==
    /\ has_rows /\ Len(all_rows) = 3
    /\ \A i, j \in 1..3 : SameEndpoints(all_rows[i], all_rows[j])
    /\ \E i, j, k \in 1..3 :
          /\ i # j /\ all_rows[i] = all_rows[j]
          /\ all_rows[k][5] # all_rows[i][5]

\* the requests of one kind the invocation has sent
Requests(kind) == SelectSeq(kill.sent, LAMBDA x : x = kind)

FirstWaitTimedOut ==
    \E i \in 1..Len(kill.exc) : kill.exc[i] = <<"wait1", "TimeoutExpired">>

\* C17: one invocation sends at most one graceful and at most one forceful
\* request; the forceful one comes directly behind the graceful one, after the
\* first wait timed out; and an invocation that saw the process exit within the
\* first wait has sent the graceful request and nothing else.
C17_GracefulThenForceful ==
    /\ Len(Requests("terminate")) <= 1 /\ Len(Requests("kill")) <= 1
    /\ \A i \in 1..Len(kill.sent) :
          kill.sent[i] = "kill" =>
              i = 2 /\ kill.sent[1] = "terminate" /\ FirstWaitTimedOut
    /\ Done /\ Reason = <<"terminated">> =>
          kill.sent = <<"terminate">> /\ kill.rc = "none" /\ ~FirstWaitTimedOut

\* the forceful request went out behind the graceful one and the process exited
C17_Witness ==
    /\ Done /\ Reason = <<"killed">>
    /\ kill.sent = <<"terminate", "kill">> /\ FirstWaitTimedOut

\* some step of try_kill_pid can be taken
KillStep ==
    \/ KillHandle \/ KillTerminate \/ KillWait1 \/ KillKill \/ KillWait2
    \/ KillFallbackWin \/ KillFallbackPosix

IsOutcome(res) == Len(res) = 2 /\ res[1] \in BOOLEAN /\ res[2] # <<>>

\* C18: an invocation for pid > 0 never leaves try_kill_pid by an exception:
\* at every point short of its return it has a next step inside the function,
\* whatever was raised so far, and where it ends it has returned a pair of a
\* truth value and a reason.
C18_AlwaysReturnsPair ==
    kill.pid > 0 =>
        /\ kill.pc # "escaped"
        /\ kill.pc \notin {"idle", "done"} => ENABLED KillStep
        /\ Done => IsOutcome(kill.result)

\* a pair is returned behind a second timeout
C18_Witness ==
    /\ kill.pid > 0 /\ Done /\ IsOutcome(kill.result)
    /\ \E i \in 1..Len(kill.exc) : kill.exc[i] = <<"wait2", "TimeoutExpired">>

\* the "Confirm Kill" box for pid is open on top
Confirming(st, pid) ==
    st # <<>> /\ st[Len(st)].h = "kill" /\ st[Len(st)].pc = "confirm"
              /\ st[Len(st)].pid = pid

\* the "Confirm Kill" box for pid is open, on top or under an error box
Asked(st, pid) ==
    \E i \in 1..Len(st) :
        st[i].h = "kill" /\ st[i].pc = "confirm" /\ st[i].pid = pid

\* C19: a request goes out only from a try_kill_pid that on_kill_clicked is
\* running for a pid > 0; that try_kill_pid starts only as the answer to the
\* "Confirm Kill" box of the same pid; and that box opens only from the idle
\* window, for the pid bound to the Kill button of a visible row, pid > 0.
C19_OnlyConfirmedKills ==
    [][/\ Len(kill'.sent) > Len(kill.sent) =>
              /\ stack # <<>> /\ Top.h = "kill" /\ Top.pc = "try"
              /\ Top.pid = kill.pid /\ kill.pid > 0
              /\ kill'.pid = kill.pid
       /\ kill.pc = "idle" /\ kill'.pc # "idle" =>
              /\ kill'.pid > 0 /\ kill'.sent = <<>>
              /\ Confirming(stack, kill'.pid)
       /\ \A pid \in {-1, 0} \cup Pids :
              Asked(stack', pid) /\ ~Asked(stack, pid) =>
                  /\ Idle /\ pid > 0
                  /\ \E i \in 1..Len(table) : RecordOf(table[i])[5] = pid]_vars

\* a request has gone out on the operator's confirmed click
C19_Witness ==
    /\ stack # <<>> /\ Top.h = "kill" /\ Top.pc = "try"
    /\ Top.pid = kill.pid /\ Len(kill.sent) = 1 /\ kill.pc = "wait1"

\* C20: an invocation that returns (false, "process not found") has sent no
\* request: the process was gone before the graceful request.
C20_NotFoundMeansGoneBefore ==
    Done /\ Reason = <<"process not found">> => kill.sent = <<>>

====
